---- MODULE Spec2Model ----
(***************************************************************************)
(* Types/_source/LocalSession: a data source that keeps its records in a  *)
(* string-keyed local storage.  RawManager keeps the ordered list of keys  *)
(* (item 'i'), their number (item 'k') and one item per record ('d'+key);  *)
(* LocalSession implements create/read/update/destroy/query/merge/copy/    *)
(* move on top of it.                                                      *)
(*                                                                         *)
(* The storage items are values: getItem hands out a deserialized copy,    *)
(* so a list changed by a handler reaches the storage only by setItem.     *)
(***************************************************************************)
EXTENDS Integers, Sequences, FiniteSets, TLC

(***************************************************************************)
(* Bounds of the model.                                                    *)
(***************************************************************************)
MaxSteps == 3      \* public operations after construction
MaxList == 2       \* length of a list of keys passed to destroy or move
MaxBatch == 2      \* records of a RecordSet passed to update
MaxSeed == 2       \* rows of options.data
MaxRows == 3       \* rows handed to a stage of LocalQuery
MaxPage == 5       \* rows with plain values handed to offset and limit

(***************************************************************************)
(* JavaScript values.  Every value is a record of one shape, so that any   *)
(* two values can be compared.                                             *)
(***************************************************************************)
Undef == [t |-> "undefined", s |-> "", n |-> 0]
Null == [t |-> "null", s |-> "", n |-> 0]
Str(x) == [t |-> "string", s |-> x, n |-> 0]
Num(x) == [t |-> "number", s |-> "", n |-> x]

UserKeys == {"a", "b"}      \* identity values a caller supplies
GenKeys == {"g"}                 \* tokens genId can produce
Keys == UserKeys \cup GenKeys

NoKey == "null"                  \* the target of move when it is null
NoItem == Null                   \* getItem of an item that was never set

IdProperty == "id"
Fields == {"id", "v"}
VValues == {Undef, Num(1), Num(2)}
IdValues == {Undef} \cup {Str(k) : k \in UserKeys}

\* a record as update receives it: its fields, or one whose get() throws
Records == [id : IdValues, v : VValues]
BadRecord == [id |-> Null, v |-> Null]

Max(a, b) == IF a > b THEN a ELSE b
Min(a, b) == IF a < b THEN a ELSE b

(***************************************************************************)
(* Array.prototype.indexOf and splice, 0-based as in the source.           *)
(***************************************************************************)
IndexOf(s, x) ==
    IF \E i \in 1..Len(s) : s[i] = x
    THEN (CHOOSE i \in 1..Len(s) : s[i] = x /\ \A j \in 1..(i - 1) : s[j] # x) - 1
    ELSE -1

Splice(s, start, delCount, items) ==
    LET len == Len(s)
        st == IF start < 0 THEN Max(len + start, 0) ELSE Min(start, len)
        dc == Min(Max(delCount, 0), len - st)
    IN SubSeq(s, 1, st) \o items \o SubSeq(s, st + dc + 1, len)

VARIABLES ls, pre, op, log, steps, lq, table

vars == <<ls, pre, op, log, steps, lq, table>>

(***************************************************************************)
(* RawManager                                                              *)
(***************************************************************************)
getCount(st) == st.k
getKeys(st) == st.i
RawManager_get(st, key) == st.d[key]

\* RawManager.set putting a new key at the front of the list (unshift for push)
RawManager_set_unshift(st, key, item) ==
    LET count == getCount(st) + 1
        keys == getKeys(st)
    IN IF IndexOf(keys, key) = -1
       THEN [k |-> count, i |-> <<key>> \o keys, d |-> [st.d EXCEPT ![key] = item]]
       ELSE [st EXCEPT !.d[key] = item]

RawManager_set(st, key, item) ==
    LET count == getCount(st) + 1
        keys == getKeys(st)
    IN IF IndexOf(keys, key) = -1
       THEN [k |-> count, i |-> Append(keys, key), d |-> [st.d EXCEPT ![key] = item]]
       ELSE [st EXCEPT !.d[key] = item]


\* removeFromKeys: the first occurrence of every given key leaves the list
RECURSIVE removeFromKeysLoop(_, _)
removeFromKeysLoop(data, ks) ==
    IF ks = <<>> THEN data
    ELSE LET index == IndexOf(data, Head(ks))
         IN removeFromKeysLoop(IF index = -1 THEN data ELSE Splice(data, index, 1, <<>>),
                               Tail(ks))

removeFromKeys(st, arg) == [st EXCEPT !.i = removeFromKeysLoop(getKeys(st), arg.ks)]

\* the loop of remove over an array: one decrement and one removeItem per entry
RECURSIVE removeLoop(_, _)
removeLoop(st, ks) ==
    IF ks = <<>> THEN st
    ELSE removeLoop([st EXCEPT !.k = getCount(st) - 1, !.d[Head(ks)] = NoItem], Tail(ks))

\* a key argument is one key (arr = FALSE, ks = <<key>>) or an array of keys
RawManager_remove(st, arg) ==
    IF ~arg.arr
    THEN LET count == getCount(st)
             st1 == removeFromKeys(st, arg)
         IN [st1 EXCEPT !.k = count - 1, !.d[arg.ks[1]] = NoItem]
    ELSE removeFromKeys(removeLoop(st, arg.ks), arg)

\* existKeys without the test of an empty list of existing keys
existKeys_noEmptyTest(st, arg) ==
    LET existedKeys == getKeys(st)
    IN IF arg.arr
       THEN \A i \in 1..Len(arg.ks) : ~(IndexOf(existedKeys, arg.ks[i]) <= -1)
       ELSE IndexOf(existedKeys, arg.ks[1]) > -1

existKeys(st, arg) ==
    LET existedKeys == getKeys(st)
    IN IF Len(existedKeys) = 0 THEN FALSE
       ELSE IF arg.arr
            THEN \A i \in 1..Len(arg.ks) : ~(IndexOf(existedKeys, arg.ks[i]) <= -1)
            ELSE IndexOf(existedKeys, arg.ks[1]) > -1

One(key) == [arr |-> FALSE, ks |-> <<key>>]
Many(ks) == [arr |-> TRUE, ks |-> ks]

\* reserveId: the tokens the do-while loop can leave with
reserveId(st) == {lastId \in GenKeys : ~existKeys(st, One(lastId))}

\* the first loop of RawManager.move: splice(indexOf(id), 1) for every source
RECURSIVE moveRemoveLoop(_, _)
moveRemoveLoop(keys, sourceItems) ==
    IF sourceItems = <<>> THEN keys
    ELSE moveRemoveLoop(Splice(keys, IndexOf(keys, Head(sourceItems)), 1, <<>>),
                        Tail(sourceItems))

\* the second loop splicing every source at toIndex + shift, dropping index
RECURSIVE moveInsertLoop_noIndex(_, _, _, _, _)
moveInsertLoop_noIndex(keys, sourceItems, index, start, isNaN) ==
    IF index >= Len(sourceItems) THEN keys
    ELSE moveInsertLoop_noIndex(Splice(keys, IF isNaN THEN 0 ELSE start, 0,
                                       <<sourceItems[index + 1]>>),
                                sourceItems, index + 1, start, isNaN)

\* the second loop: splice(toIndex + shift + index, 0, id); start is
\* toIndex + shift, or not a number when toIndex was never assigned, and
\* splice takes a start that is not a number as 0
RECURSIVE moveInsertLoop(_, _, _, _, _)
moveInsertLoop(keys, sourceItems, index, start, isNaN) ==
    IF index >= Len(sourceItems) THEN keys
    ELSE moveInsertLoop(Splice(keys, IF isNaN THEN 0 ELSE start + index, 0,
                               <<sourceItems[index + 1]>>),
                        sourceItems, index + 1, start, isNaN)

moveShift(meta) ==
    IF meta.defined /\ (meta.before \/ meta.position = "before") THEN 0 ELSE 1

\* RawManager.move: what it returns (failed: a failed Deferred) and the storage
RawManager_move(st, sourceItems, to, meta) ==
    LET keys == moveRemoveLoop(getKeys(st), sourceItems)
        toIndex == IndexOf(keys, to)
        shift == moveShift(meta)
    IN IF to # NoKey /\ toIndex = -1
       THEN [failed |-> TRUE, st |-> st]
       ELSE [failed |-> FALSE,
             st |-> [st EXCEPT !.i = moveInsertLoop(keys, sourceItems, 0,
                                                    toIndex + shift, to = NoKey)]]

(***************************************************************************)
(* WhereTokenizer.  A key of the where mapping is given by the parts the   *)
(* regular expression of the tokenizer finds in it: field, the first run   *)
(* of word characters ("" when the key has none and match() yields null),  *)
(* and sym, the run of the characters ! > < = that follows it.             *)
(***************************************************************************)
Arr(a) == [t |-> "array", s |-> "", n |-> 0, a |-> a]

\* an array as a string (join with ","), any other value as it is
elementString(e) ==
    IF e.t = "number" THEN ToString(e.n) ELSE IF e.t = "string" THEN e.s ELSE ""

RECURSIVE join(_)
join(a) ==
    IF a = <<>> THEN ""
    ELSE IF Len(a) = 1 THEN elementString(a[1])
    ELSE elementString(a[1]) \o "," \o join(Tail(a))

ToPrimitive(a) == IF a.t = "array" THEN Str(join(a.a)) ELSE a

\* the order of the strings of the model under < of the language
StrOrder == <<"", "1", "1,2", "2", "2,1", "3", "a", "b", "g">>
StrRank(x) == IndexOf(StrOrder, x)

\* the strings of the model that convert to a number
NumeralValue == ("" :> 0) @@ ("1" :> 1) @@ ("2" :> 2) @@ ("3" :> 3)

IsNumeric(a) ==
    \/ a.t \in {"number", "null"}
    \/ a.t = "string" /\ a.s \in DOMAIN NumeralValue
ToNumber(a) ==
    IF a.t = "number" THEN a.n
    ELSE IF a.t = "string" /\ a.s \in DOMAIN NumeralValue THEN NumeralValue[a.s]
    ELSE 0

\* a < b: strings by code units, anything else as numbers (undefined and a
\* string that is no numeral are not a number, and compare false)
Less(a, b) ==
    LET pa == ToPrimitive(a)
        pb == ToPrimitive(b)
    IN IF pa.t = "string" /\ pb.t = "string" THEN StrRank(pa.s) < StrRank(pb.s)
       ELSE IsNumeric(pa) /\ IsNumeric(pb) /\ ToNumber(pa) < ToNumber(pb)

\* a <= b
LessEq(a, b) ==
    LET pa == ToPrimitive(a)
        pb == ToPrimitive(b)
    IN IF pa.t = "string" /\ pb.t = "string" THEN StrRank(pa.s) <= StrRank(pb.s)
       ELSE IsNumeric(pa) /\ IsNumeric(pb) /\ ToNumber(pa) <= ToNumber(pb)

\* a === b: two arrays are two objects
StrictEq(a, b) == a = b /\ a.t # "array"

\* a == b of the language on the values of the model
LooseEq(a, b) ==
    LET pa == ToPrimitive(a)
        pb == ToPrimitive(b)
        nullish == {"undefined", "null"}
    IN IF a.t = "array" /\ b.t = "array" THEN FALSE
       ELSE IF a.t \in nullish \/ b.t \in nullish THEN a.t \in nullish /\ b.t \in nullish
       ELSE IF pa.t = pb.t THEN pa = pb
       ELSE IsNumeric(pa) /\ IsNumeric(pb) /\ ToNumber(pa) = ToNumber(pb)

WhereTokenizer_eq(field, val) ==
    IF val.t # "array" THEN LooseEq(field, val)
    ELSE \E i \in 1..Len(val.a) : StrictEq(val.a[i], field)
WhereTokenizer_ne(field, val) == ~LooseEq(field, val)
WhereTokenizer_lt(field, val) == Less(field, val)
WhereTokenizer_le(field, val) == LessEq(field, val)
WhereTokenizer_gt(field, val) == Less(val, field)
WhereTokenizer_ge(field, val) == LessEq(val, field)

\* tokinize deciding on the first symbol alone
tokinize_firstSymbol(key) ==
    [field |-> key.field,
     op |-> CASE key.sym \in {"<", "<=", "<>"} -> "lt"
              [] key.sym \in {">", ">="} -> "gt"
              [] key.sym = "!=" -> "ne"
              [] OTHER -> "eq"]

\* tokinize: the name of the comparison chosen by the switch on the symbols
tokinize(key) ==
    [field |-> key.field,
     op |-> CASE key.sym = "<" -> "lt"
              [] key.sym = "<=" -> "le"
              [] key.sym = ">" -> "gt"
              [] key.sym = ">=" -> "ge"
              [] key.sym = "!=" -> "ne"
              [] key.sym = "<>" -> "ne"
              [] OTHER -> "eq"]

\* m.shift() on the null that match() yields for a key without a word character
tokinizeThrows(key) == key.field = ""

ApplyOp(fn, field, val) ==
    CASE fn = "lt" -> WhereTokenizer_lt(field, val)
      [] fn = "le" -> WhereTokenizer_le(field, val)
      [] fn = "gt" -> WhereTokenizer_gt(field, val)
      [] fn = "ge" -> WhereTokenizer_ge(field, val)
      [] fn = "ne" -> WhereTokenizer_ne(field, val)
      [] OTHER -> WhereTokenizer_eq(field, val)

(***************************************************************************)
(* LocalQuery.  A row is a function from Fields to values, Undef standing  *)
(* for a field the row does not have.  A query is the record               *)
(* [select, where, orderBy, offset, limit]: select a sequence of field     *)
(* names, where the sequence of the entries [key, value] of the mapping in *)
(* enumeration order, orderBy a sequence of [selector, order] (order TRUE  *)
(* is descending), offset a number and limit a number or -1 for undefined. *)
(***************************************************************************)
NoLimit == -1

ItemField(item, name) == IF name \in DOMAIN item THEN item[name] ELSE Undef

LocalQuery_select(query, items) ==
    LET fields == query.select
    IN IF Len(fields) = 0 THEN items
       ELSE [i \in 1..Len(items) |->
               [name \in {fields[j] : j \in 1..Len(fields)} |-> ItemField(items[i], name)]]

\* the conditions pushed by the loop over the keys of the mapping
whereConditions(where) ==
    LET used == SelectSeq(where, LAMBDA e : e.value # Undef)
    IN [i \in 1..Len(used) |->
          [field |-> tokinize(used[i].key).field,
           op |-> tokinize(used[i].key).op,
           value |-> used[i].value]]

whereThrows(query) ==
    \E i \in 1..Len(query.where) :
        query.where[i].value # Undef /\ tokinizeThrows(query.where[i].key)

\* the callback of items.filter: the loop over the conditions
RECURSIVE whereFilter(_, _, _)
whereFilter(item, conditions, i) ==
    IF i > Len(conditions) THEN TRUE
    ELSE LET token == conditions[i]
             field == ItemField(item, token.field)
         IN IF field.t = "array"
            THEN IF Len(field.a) = 0 THEN FALSE
                 ELSE ApplyOp(token.op, field, token.value)
            ELSE IF ~ApplyOp(token.op, field, token.value) THEN FALSE
                 ELSE whereFilter(item, conditions, i + 1)

\* where testing the rows as select leaves them
LocalQuery_where_selected(query, items) ==
    LET conditions == whereConditions(query.where)
        selected == LocalQuery_select(query, items)
    IN SelectSeq(items, LAMBDA item :
           \E i \in 1..Len(items) :
               items[i] = item /\ whereFilter(selected[i], conditions, 1))

LocalQuery_where(query, items) ==
    LET conditions == whereConditions(query.where)
    IN SelectSeq(items, LAMBDA item : whereFilter(item, conditions, 1))

\* compare of orderBy
compare(a, b) ==
    IF a = Null /\ b # Null THEN -1
    ELSE IF a # Null /\ b = Null THEN 1
    ELSE IF StrictEq(a, b) THEN 0
    ELSE IF Less(b, a) THEN 1 ELSE -1

\* the comparator handed to sort
RECURSIVE sortCompare(_, _, _, _)
sortCompare(a, b, orders, i) ==
    IF i > Len(orders) THEN 0
    ELSE LET direction == IF orders[i].order THEN -1 ELSE 1
             result == direction * compare(ItemField(a, orders[i].selector),
                                           ItemField(b, orders[i].selector))
         IN IF result # 0 THEN result ELSE sortCompare(a, b, orders, i + 1)

\* Array.prototype.sort on a short array: insertion sort, an element moving
\* left past the elements that compare greater than it
RECURSIVE insertSorted(_, _, _)
insertSorted(sorted, x, orders) ==
    IF sorted = <<>> THEN <<x>>
    ELSE LET last == sorted[Len(sorted)]
         IN IF sortCompare(last, x, orders, 1) > 0
            THEN Append(insertSorted(SubSeq(sorted, 1, Len(sorted) - 1), x, orders), last)
            ELSE Append(sorted, x)

\* the comparator is consistent on the items: a before b means b after a
consistentComparator(items, orders) ==
    \A i, j \in 1..Len(items) :
        LET ab == IF i = j THEN 0 ELSE sortCompare(items[i], items[j], orders, 1)
            ba == IF i = j THEN 0 ELSE sortCompare(items[j], items[i], orders, 1)
        IN (ab > 0 <=> ba < 0) /\ (ab = 0 <=> ba = 0)

\* the arrangements of the items of an array
permutations(items) ==
    LET n == Len(items)
    IN {[i \in 1..n |-> items[f[i]]] :
           f \in {g \in [1..n -> 1..n] : \A i, j \in 1..n : i # j => g[i] # g[j]}}

\* data.sort(comparator): the stable sort under a consistent comparator; the
\* language leaves the order to the implementation under one that is not
\* (a field that is undefined compares -1 against a number from both sides)
LocalQuery_orderBy(items, orders) ==
    LET F[i \in 0..Len(items)] ==
            IF i = 0 THEN <<>> ELSE insertSorted(F[i - 1], items[i], orders)
    IN IF consistentComparator(items, orders) THEN {F[Len(items)]}
       ELSE permutations(items)

LocalQuery_order(query, items) ==
    IF Len(query.orderBy) > 0 THEN LocalQuery_orderBy(items, query.orderBy) ELSE {items}

LocalQuery_offset(query, items) ==
    IF query.offset = 0 THEN items
    ELSE SubSeq(items, Min(query.offset, Len(items)) + 1, Len(items))

\* limit testing the limit as offset tests the offset: 0 is no limit
LocalQuery_limit_falsy(query, items) ==
    IF query.limit = NoLimit \/ query.limit = 0 THEN items
    ELSE SubSeq(items, 1, Min(query.limit, Len(items)))

LocalQuery_limit(query, items) ==
    IF query.limit = NoLimit THEN items
    ELSE SubSeq(items, 1, Min(query.limit, Len(items)))

(***************************************************************************)
(* LocalSession.  Every operation is an operator from the storage and the  *)
(* arguments to the set of its outcomes [st, status, value]: the storage   *)
(* it leaves, "success" or "fail" for the Deferred it returns or "throw"   *)
(* for an exception that reaches the caller, and the value or the reason.  *)
(* An operation has several outcomes only through the token of reserveId,  *)
(* and none while reserveId finds no free token.                           *)
(***************************************************************************)
Outcome(st, status, value) == [st |-> st, status |-> status, value |-> value]

\* merge of Types/object: the fields of the source overwrite the target's
objectMerge(target, source) ==
    [f \in Fields |-> IF source[f] # Undef THEN source[f] ELSE target[f]]

EmptyObject == [f \in Fields |-> Undef]

\* itemToObject for a plain object or a record under the Json adapter
itemToObject(item) == IF item = Null THEN EmptyObject ELSE item

\* create writing the new item under the key it reserved
LocalSession_create_persist(st, meta) ==
    LET item == itemToObject(meta)
    IN IF item[IdProperty] = Undef
       THEN {Outcome(RawManager_set(st, lastId, item), "success", item) : lastId \in reserveId(st)}
       ELSE {Outcome(st, "success", item)}

LocalSession_create(st, meta) ==
    LET item == itemToObject(meta)
    IN IF item[IdProperty] = Undef
       THEN {Outcome(st, "success", item) : lastId \in reserveId(st)}
       ELSE {Outcome(st, "success", item)}

LocalSession_read(st, key) ==
    LET data == RawManager_get(st, key)
    IN IF data # NoItem
       THEN {Outcome(st, "success", data)}
       ELSE {Outcome(st, "fail", "Record with key does not exist")}

\* what updateRecord returns for a record whose get() throws
FailedDeferred == "Deferred.fail"

\* updateRecord: the storage it leaves and the entry it returns
updateRecord(st, record) ==
    IF record = BadRecord
    THEN {[st |-> st, key |-> FailedDeferred]}
    ELSE LET reserved == IF record[IdProperty] = Undef
                         THEN reserveId(st)
                         ELSE {record[IdProperty].s}
         IN {[st |-> RawManager_set(st, key, [record EXCEPT ![IdProperty] = Str(key)]),
              key |-> key] : key \in reserved}

\* the loop of update leaving out the entry of a record that failed
RECURSIVE updateEach_dropFailed(_, _, _)
updateEach_dropFailed(st, records, keys) ==
    IF records = <<>> THEN {[st |-> st, keys |-> keys]}
    ELSE UNION {updateEach_dropFailed(r.st, Tail(records),
                                      IF r.key = FailedDeferred THEN keys
                                      ELSE Append(keys, r.key)) :
                    r \in updateRecord(st, Head(records))}

\* data.each over a RecordSet, or the one call for a single record
RECURSIVE updateEach(_, _, _)
updateEach(st, records, keys) ==
    IF records = <<>> THEN {[st |-> st, keys |-> keys]}
    ELSE UNION {updateEach(r.st, Tail(records), Append(keys, r.key)) :
                    r \in updateRecord(st, Head(records))}

\* data is [set, records]: a RecordSet or (set = FALSE) one record
LocalSession_update(st, data) ==
    {Outcome(r.st, "success", r.keys) : r \in updateEach(st, data.records, <<>>)}

LocalSession_destroy(st, keys) ==
    LET isExistKeys == existKeys(st, keys)
    IN IF ~isExistKeys
       THEN {Outcome(st, "fail", "Not all keys exist")}
       ELSE {Outcome(RawManager_remove(st, keys), "success", TRUE)}

LocalSession_merge(st, from, to) ==
    LET fromData == RawManager_get(st, from)
        toData == RawManager_get(st, to)
    IN IF fromData = NoItem \/ toData = NoItem
       THEN {Outcome(st, "fail", "Record isn't exists")}
       ELSE LET data == objectMerge(fromData, toData)
            IN {Outcome(RawManager_remove(RawManager_set(st, from, data), One(to)),
                        "success", TRUE)}

LocalSession_copy(st, key) ==
    {LET from == RawManager_get(st, key)
     IN IF from = NoItem
        THEN Outcome(st, "fail", "Record isn't exists")
        ELSE LET to == objectMerge(EmptyObject, from)
             IN Outcome(RawManager_set(st, myId, to), "success", to)
     : myId \in reserveId(st)}

\* the meta argument of move; defined = FALSE is a call without meta
NoMeta == [defined |-> FALSE, position |-> "", before |-> FALSE, parentProperty |-> ""]
Meta(position, before, parentProperty) ==
    [defined |-> TRUE, position |-> position, before |-> before,
     parentProperty |-> parentProperty]

\* the values of move that are a failed Deferred
ParentPropertyFail == "Deferred.fail: Parent property is not defined"
ToNotFoundFail == "Deferred.fail: Record to is not found"
IsDeferred(value) == value \in {ParentPropertyFail, ToNotFoundFail}

\* the loop of _hierarchyMove over the sources; a source without a stored
\* row ends it with a TypeError, the rows written before it staying written
RECURSIVE hierarchyMoveLoop(_, _, _, _)
hierarchyMoveLoop(st, sourceItems, parentProperty, parentValue) ==
    IF sourceItems = <<>> THEN [thrown |-> FALSE, st |-> st]
    ELSE LET id == Head(sourceItems)
             item == RawManager_get(st, id)
         IN IF item = NoItem THEN [thrown |-> TRUE, st |-> st]
            ELSE hierarchyMoveLoop(
                     RawManager_set(st, id, [item EXCEPT ![parentProperty] = parentValue]),
                     Tail(sourceItems), parentProperty, parentValue)

\* _hierarchyMove: thrown, or the value it returns (a failed Deferred or
\* undefined) and the storage
LocalSession_hierarchyMove(st, sourceItems, to, meta, keys) ==
    IF meta.parentProperty = ""
    THEN [thrown |-> FALSE, value |-> ParentPropertyFail, st |-> st]
    ELSE IF to # NoKey /\ IndexOf(keys, to) = -1
    THEN [thrown |-> FALSE, value |-> ToNotFoundFail, st |-> st]
    ELSE IF to # NoKey /\ RawManager_get(st, to) = NoItem
    THEN [thrown |-> TRUE, value |-> "TypeError", st |-> st]
    ELSE LET parentValue == IF to # NoKey
                            THEN RawManager_get(st, to)[meta.parentProperty]
                            ELSE Null
             r == hierarchyMoveLoop(st, sourceItems, meta.parentProperty, parentValue)
         IN [thrown |-> r.thrown,
             value |-> IF r.thrown THEN "TypeError" ELSE "undefined",
             st |-> r.st]

\* Deferred.success(value) as move calls it: a Deferred in the state success
\* that carries the value.  Handed a Deferred as the value, the library
\* either does the same or refuses it with an Error; in no case is the
\* result a Deferred in the state fail.
DeferredSuccess(st, value) ==
    IF IsDeferred(value)
    THEN {Outcome(st, "success", value), Outcome(st, "throw", value)}
    ELSE {Outcome(st, "success", value)}

\* from is a key argument: a key that is not an array is wrapped into one
LocalSession_move(st, from, to, meta) ==
    LET keys == getKeys(st)
        sourceItems == SelectSeq(from.ks, LAMBDA id : IndexOf(keys, id) # -1)
    IN IF ~meta.defined
       THEN {Outcome(st, "throw", "TypeError")}
       ELSE IF meta.position = "on"
       THEN LET r == LocalSession_hierarchyMove(st, sourceItems, to, meta, keys)
            IN IF r.thrown THEN {Outcome(r.st, "throw", r.value)}
               ELSE DeferredSuccess(r.st, r.value)
       ELSE LET r == RawManager_move(st, sourceItems, to, meta)
            IN DeferredSuccess(r.st, IF r.failed THEN ToNotFoundFail ELSE "undefined")

DefaultQuery == [select |-> <<>>, where |-> <<>>, orderBy |-> <<>>,
                 offset |-> 0, limit |-> NoLimit]

\* the rows of all keys, in the order of the list of keys
queryData(st) == [i \in 1..Len(getKeys(st)) |-> RawManager_get(st, getKeys(st)[i])]

HasNoItem(items) == \E i \in 1..Len(items) : items[i] = NoItem

\* a stage that reads a field of a row that is null throws a TypeError
queryThrows(query, data0) ==
    \/ Len(query.orderBy) > 0 /\ Len(data0) >= 2 /\ HasNoItem(data0)
    \/ whereThrows(query)
    \/ Len(whereConditions(query.where)) > 0 /\ HasNoItem(data0)
    \/ Len(query.select) > 0
       /\ HasNoItem(LocalQuery_limit(query, LocalQuery_offset(query, data0)))

\* query reporting as total the number of rows that passed where
LocalSession_query_totalMatched(st, query) ==
    IF queryThrows(query, queryData(st))
    THEN {Outcome(st, "throw", "TypeError")}
    ELSE {LET data2 == LocalQuery_where(query, data1)
              data3 == LocalQuery_offset(query, data2)
              data4 == LocalQuery_limit(query, data3)
              data5 == LocalQuery_select(query, data4)
          IN Outcome(st, "success", [items |-> data5, total |-> Len(data2)]) :
              data1 \in LocalQuery_order(query, queryData(st))}

LocalSession_query(st, query) ==
    IF queryThrows(query, queryData(st))
    THEN {Outcome(st, "throw", "TypeError")}
    ELSE {LET data2 == LocalQuery_where(query, data1)
              data3 == LocalQuery_offset(query, data2)
              data4 == LocalQuery_limit(query, data3)
              data5 == LocalQuery_select(query, data4)
          IN Outcome(st, "success", [items |-> data5, total |-> Len(data5)]) :
              data1 \in LocalQuery_order(query, queryData(st))}

\* initJsonData: options.data written row by row
RECURSIVE initJsonData(_, _)
initJsonData(st, data) ==
    IF data = <<>> THEN {st}
    ELSE LET item == Head(data)
             itemId == item[IdProperty]
             reserved == IF itemId = Undef THEN reserveId(st) ELSE {itemId.s}
         IN UNION {initJsonData(RawManager_set(st, key, item), Tail(data)) : key \in reserved}

\* the storage the constructor of RawManager finds empty and initializes
RawManager_new == [k |-> 0, i |-> <<>>, d |-> [key \in Keys |-> NoItem]]

\* a storage no source has written under the prefix: no item 'k', no item 'i'
NoStorage == [d |-> [key \in Keys |-> NoItem]]

\* a constructor of RawManager that sets the count and the keys anew
RawManager_constructor_reset(st) == [k |-> 0, i |-> <<>>, d |-> st.d]

\* the constructor of RawManager on the storage it finds
RawManager_constructor(st) ==
    [k |-> IF "k" \in DOMAIN st THEN st.k ELSE 0,
     i |-> IF "i" \in DOMAIN st THEN st.i ELSE <<>>,
     d |-> st.d]

PrefixError == "\"prefix\" not found in options."
IdPropertyError == "\"idProperty\" not found in options."

\* the constructor building the RawManager before it tests the options
LocalSession_constructor_late(st, options) ==
    IF ~options.prefix THEN {Outcome(RawManager_constructor(st), "throw", PrefixError)}
    ELSE IF ~options.idProperty
    THEN {Outcome(RawManager_constructor(st), "throw", IdPropertyError)}
    ELSE {Outcome(st2, "success", "LocalSession") :
             st2 \in initJsonData(RawManager_constructor(st), options.data)}

\* the constructor of LocalSession: options.prefix and options.idProperty say
\* whether the option is in options, options.data are the rows to write
LocalSession_constructor(st, options) ==
    IF ~options.prefix THEN {Outcome(st, "throw", PrefixError)}
    ELSE IF ~options.idProperty THEN {Outcome(st, "throw", IdPropertyError)}
    ELSE {Outcome(st2, "success", "LocalSession") :
             st2 \in initJsonData(RawManager_constructor(st), options.data)}

(***************************************************************************)
(* The arguments the operations are called with.                           *)
(***************************************************************************)
SeqsUpTo(S, n) == UNION {[1..m -> S] : m \in 0..n}

KeyArgs == {One(key) : key \in Keys} \cup {Many(ks) : ks \in SeqsUpTo(Keys, MaxList)}

Row(id, v) == [id |-> id, v |-> v]

SeedRows == {Row(Str("a"), Num(1)), Row(Str("b"), Num(2)), Row(Undef, Num(1))}
Seeds == SeqsUpTo(SeedRows, MaxSeed)

CreateMetas == {Null, Row(Str("a"), Num(1)), Row(Undef, Num(1))}

BatchRecords == {Row(Str("a"), Num(2)), Row(Undef, Undef), BadRecord}
UpdateData ==
    {[set |-> FALSE, records |-> <<r>>] : r \in Records \cup {BadRecord}}
    \cup {[set |-> TRUE, records |-> rs] : rs \in SeqsUpTo(BatchRecords, MaxBatch)}

Metas == {NoMeta,
          Meta("", FALSE, ""), Meta("", TRUE, ""),
          Meta("before", FALSE, ""), Meta("after", FALSE, ""),
          Meta("on", FALSE, "v"), Meta("on", FALSE, "")}

Targets == Keys \cup {NoKey}

Key(field, sym) == [field |-> field, sym |-> sym]
Queries ==
    {DefaultQuery,
     [select |-> <<"v">>, where |-> <<[key |-> Key("v", ">="), value |-> Num(1)]>>,
      orderBy |-> <<[selector |-> "v", order |-> TRUE]>>, offset |-> 1, limit |-> 1],
     [DefaultQuery EXCEPT !.where = <<[key |-> Key("", ">"), value |-> Num(1)]>>],
     [select |-> <<"id">>, where |-> <<[key |-> Key("v", "<"), value |-> Num(2)]>>,
      orderBy |-> <<[selector |-> "id", order |-> FALSE]>>, offset |-> 0, limit |-> 1]}

(***************************************************************************)
(* The state: the storage ls = [k, i, d] (the count, the list of keys and  *)
(* the row of every key), the call in flight op with its arguments and its *)
(* result, the storage pre that call found, and the number of calls made.  *)
(* log holds the rows updated so far while the store, constructed empty,   *)
(* has only seen updates of records with identities not seen before.       *)
(***************************************************************************)
NoOp == [name |-> "none"]
NoQuery == [stage |-> "none"]
NoTable == [s |-> <<>>, d |-> <<>>]
LogOff == [ok |-> FALSE, rows |-> <<>>]

TypeOK ==
    /\ ls.k \in Int
    /\ ls.i \in Seq(Keys)
    /\ DOMAIN ls.d = Keys
    /\ steps \in 0..MaxSteps
    /\ log.ok \in BOOLEAN

Init ==
    /\ \E data \in Seeds : ls \in initJsonData(RawManager_new, data)
    /\ pre = ls
    /\ op = NoOp
    /\ log = [ok |-> ls.i = <<>>, rows |-> <<>>]
    /\ steps = 0
    /\ lq = NoQuery
    /\ table = NoTable

\* an operation is called when the result of the previous one was taken
Call == op = NoOp /\ steps < MaxSteps

Finish(name, args, r) ==
    /\ ls' = r.st
    /\ pre' = ls
    /\ op' = [name |-> name, args |-> args, status |-> r.status, value |-> r.value]
    /\ steps' = steps + 1
    /\ UNCHANGED <<lq, table>>

Create ==
    /\ Call
    /\ \E meta \in CreateMetas : \E r \in LocalSession_create(ls, meta) :
          Finish("create", [meta |-> meta], r)
    /\ UNCHANGED log

Read ==
    /\ Call
    /\ \E key \in Keys : \E r \in LocalSession_read(ls, key) :
          Finish("read", [key |-> key], r)
    /\ UNCHANGED log

\* the rows an update call stores, in the order of its records
UpdatedRows(records, keys) ==
    [i \in 1..Len(records) |-> [records[i] EXCEPT ![IdProperty] = Str(keys[i])]]

LogUpdate(lg, st, records, keys) ==
    IF /\ lg.ok
       /\ \A i \in 1..Len(keys) : keys[i] # FailedDeferred /\ IndexOf(getKeys(st), keys[i]) = -1
       /\ \A i, j \in 1..Len(keys) : i # j => keys[i] # keys[j]
    THEN [ok |-> TRUE, rows |-> lg.rows \o UpdatedRows(records, keys)]
    ELSE LogOff

Update ==
    /\ Call
    /\ \E data \in UpdateData : \E r \in LocalSession_update(ls, data) :
          /\ Finish("update", [data |-> data], r)
          /\ log' = LogUpdate(log, ls, data.records, r.value)

Destroy ==
    /\ Call
    /\ \E keys \in KeyArgs : \E r \in LocalSession_destroy(ls, keys) :
          Finish("destroy", [keys |-> keys], r)
    /\ log' = LogOff

Query ==
    /\ Call
    /\ \E query \in Queries : \E r \in LocalSession_query(ls, query) :
          Finish("query", [query |-> query], r)
    /\ UNCHANGED log

Merge ==
    /\ Call
    /\ \E from \in Keys, to \in Keys : \E r \in LocalSession_merge(ls, from, to) :
          Finish("merge", [from |-> from, to |-> to], r)
    /\ log' = LogOff

Copy ==
    /\ Call
    /\ \E key \in Keys : \E r \in LocalSession_copy(ls, key) :
          Finish("copy", [key |-> key], r)
    /\ log' = LogOff

Move ==
    /\ Call
    /\ \E from \in KeyArgs, to \in Targets, meta \in Metas :
          \E r \in LocalSession_move(ls, from, to, meta) :
             Finish("move", [from |-> from, to |-> to, meta |-> meta], r)
    /\ log' = LogOff

\* the caller takes the result of the call
Callback ==
    /\ op # NoOp
    /\ op' = NoOp
    /\ pre' = ls
    /\ UNCHANGED <<ls, log, steps, lq, table>>

Next ==
    \/ Create
    \/ Read
    \/ Update
    \/ Destroy
    \/ Query
    \/ Merge
    \/ Copy
    \/ Move
    \/ Callback

Spec == Init /\ [][Next]_vars

(***************************************************************************)
(* The stages of LocalQuery on their own.  lq is the LocalQuery at work:   *)
(* the rows it was handed (items), the query, the stage that ran, whether  *)
(* it returned ("success") or raised ("throw"), and the rows it returned   *)
(* (data).  The rows are drawn at the start, the query by the stage.       *)
(***************************************************************************)
QueryValues == {Undef, Null, Num(1), Num(2), Arr(<<>>), Arr(<<Num(1), Num(2)>>)}
QueryRows == [id : {Str("a"), Str("b")}, v : QueryValues]
PageRows == {Row(Str("a"), Num(1)), Row(Str("b"), Num(2))}

Order(selector, order) == [selector |-> selector, order |-> order]
StageOrders ==
    {<<>>,
     <<Order("v", FALSE)>>,
     <<Order("v", TRUE)>>,
     <<Order("v", FALSE), Order("id", TRUE)>>,
     <<Order("id", FALSE), Order("v", TRUE)>>}

Cond(field, sym, value) == [key |-> Key(field, sym), value |-> value]
StageWheres ==
    {<<Cond("v", sym, Num(n))>> : sym \in {"", "<", "<=", ">", ">=", "!=", "<>"}, n \in {1, 2}}
    \cup {<<>>,
          <<Cond("v", "", Arr(<<Num(1), Num(2)>>))>>,
          <<Cond("v", ">=", Num(1)), Cond("id", "", Str("a"))>>,
          <<Cond("id", "", Str("a")), Cond("v", ">=", Num(1))>>,
          <<Cond("v", "!=", Num(1)), Cond("id", "", Str("a"))>>,
          <<Cond("id", "", Str("a")), Cond("v", "!=", Num(1))>>,
          <<Cond("v", "<", Undef), Cond("id", "", Str("b"))>>,
          <<Cond("", ">", Num(1))>>}

StageOffsets == 0..3
StageLimits == {NoLimit} \cup 0..3

QueryInit ==
    /\ ls = RawManager_new
    /\ pre = ls
    /\ op = NoOp
    /\ log = LogOff
    /\ steps = 0
    /\ table = NoTable
    /\ \E items \in SeqsUpTo(QueryRows, MaxRows) \cup SeqsUpTo(PageRows, MaxPage) :
          lq = [stage |-> "new", items |-> items, query |-> DefaultQuery,
                status |-> "success", data |-> items]

Ran(stage, query, status, data) ==
    /\ lq' = [stage |-> stage, items |-> lq.items, query |-> query,
              status |-> status, data |-> data]
    /\ UNCHANGED <<ls, pre, op, log, steps, table>>

OrderStage ==
    /\ lq.stage = "new"
    /\ \E orders \in StageOrders :
          LET query == [DefaultQuery EXCEPT !.orderBy = orders]
          IN \E data \in LocalQuery_order(query, lq.items) :
                Ran("order", query, "success", data)

WhereStage ==
    /\ lq.stage = "new"
    /\ \E where \in StageWheres :
          LET query == [DefaultQuery EXCEPT !.where = where]
          IN IF whereThrows(query)
             THEN Ran("where", query, "throw", <<>>)
             ELSE Ran("where", query, "success", LocalQuery_where(query, lq.items))

OffsetStage ==
    /\ lq.stage = "new"
    /\ \E offset \in StageOffsets :
          LET query == [DefaultQuery EXCEPT !.offset = offset]
          IN Ran("offset", query, "success", LocalQuery_offset(query, lq.items))

\* limit runs on what offset returned
LimitStage ==
    /\ lq.stage = "offset"
    /\ \E limit \in StageLimits :
          LET query == [lq.query EXCEPT !.limit = limit]
          IN Ran("limit", query, "success", LocalQuery_limit(query, lq.data))

QueryNext ==
    \/ OrderStage
    \/ WhereStage
    \/ OffsetStage
    \/ LimitStage

QuerySpec == QueryInit /\ [][QueryNext]_vars

(***************************************************************************)
(* Construction.  The storage outlives the source: a constructor finds     *)
(* the storage never written or as an earlier source left it.              *)
(***************************************************************************)
Options == [prefix : BOOLEAN, idProperty : BOOLEAN, data : Seeds]

ConstructInit ==
    /\ ls \in {NoStorage} \cup UNION {initJsonData(RawManager_new, data) : data \in Seeds}
    /\ pre = ls
    /\ op = NoOp
    /\ log = LogOff
    /\ steps = 0
    /\ lq = NoQuery
    /\ table = NoTable

Construct ==
    /\ Call
    /\ \E options \in Options : \E r \in LocalSession_constructor(ls, options) :
          Finish("constructor", [options |-> options], r)
    /\ UNCHANGED log

ConstructNext ==
    \/ Construct
    \/ Callback

ConstructSpec == ConstructInit /\ [][ConstructNext]_vars

(***************************************************************************)
(* Types/_entity/adapter/SbisTable.  table is this._data: s the fields of  *)
(* the format and d the rows, a row being the array of its values, or      *)
(* undefined where move put nothing it had removed.  A record is {d, s}.   *)
(* An operation is an operator from the table and the arguments to the     *)
(* outcome [table, status, value]: the table it leaves, "success" or       *)
(* "throw", and the value returned or the error raised.                    *)
(***************************************************************************)
NoAt == -2                              \* the argument at left undefined
RangeError == "RangeError"
FormatError == "TypeError: format"

TableOutcome(t, status, value) == [table |-> t, status |-> status, value |-> value]

\* _checkRowIndex: the index does not pass
checkRowIndexThrows(t, index, addMode) ==
    LET max == Len(t.d) + (IF addMode THEN 0 ELSE -1)
    IN ~(index >= 0 /\ index <= max)

\* _checkFormat of SbisFormatMixin: the format of the record is not the
\* format of the table
checkFormatThrows(t, record) == record.s # t.s

\* merge of Types/object on two rows: the values of the donor overwrite
arrayMerge(target, source) ==
    IF target.t # "array" \/ source.t # "array" THEN target
    ELSE Arr([i \in 1..Max(Len(target.a), Len(source.a)) |->
                 IF i <= Len(source.a) THEN source.a[i] ELSE target.a[i]])

SbisTable_add(t, record, at) ==
    LET t1 == IF Len(t.d) = 0 THEN [t EXCEPT !.s = record.s] ELSE t
    IN IF checkFormatThrows(t1, record) THEN TableOutcome(t1, "throw", FormatError)
       ELSE IF at = NoAt
       THEN TableOutcome([t1 EXCEPT !.d = Append(t1.d, Arr(record.d))], "success", "undefined")
       ELSE IF checkRowIndexThrows(t1, at, TRUE) THEN TableOutcome(t1, "throw", RangeError)
       ELSE TableOutcome([t1 EXCEPT !.d = Splice(t1.d, at, 0, <<Arr(record.d)>>)],
                         "success", "undefined")

SbisTable_remove(t, at) ==
    IF checkRowIndexThrows(t, at, FALSE) THEN TableOutcome(t, "throw", RangeError)
    ELSE TableOutcome([t EXCEPT !.d = Splice(t.d, at, 1, <<>>)], "success", "undefined")

SbisTable_replace(t, record, at) ==
    IF checkRowIndexThrows(t, at, FALSE) THEN TableOutcome(t, "throw", RangeError)
    ELSE LET t1 == IF Len(t.s) = 0 /\ Len(record.s) > 0 THEN [t EXCEPT !.s = record.s] ELSE t
             record1 == [record EXCEPT !.s = t1.s]
         IN IF checkFormatThrows(t1, record1) THEN TableOutcome(t1, "throw", FormatError)
            ELSE TableOutcome([t1 EXCEPT !.d[at + 1] = Arr(record.d)], "success", "undefined")

\* what d.splice(source, 1) removes, as removed.shift() hands it on
moveRemoved(d, source) ==
    LET len == Len(d)
        st == IF source < 0 THEN Max(len + source, 0) ELSE Min(source, len)
    IN IF st < len THEN d[st + 1] ELSE Undef

SbisTable_move(t, source, target) ==
    IF target = source THEN TableOutcome(t, "success", "undefined")
    ELSE LET item == moveRemoved(t.d, source)
             d1 == Splice(t.d, source, 1, <<>>)
         IN TableOutcome([t EXCEPT !.d = IF target = -1 THEN <<item>> \o d1
                                         ELSE Splice(d1, target, 0, <<item>>)],
                         "success", "undefined")

SbisTable_merge(t, acceptor, donor) ==
    IF checkRowIndexThrows(t, acceptor, FALSE) \/ checkRowIndexThrows(t, donor, FALSE)
    THEN TableOutcome(t, "throw", RangeError)
    ELSE LET t1 == [t EXCEPT !.d[acceptor + 1] = arrayMerge(t.d[acceptor + 1], t.d[donor + 1])]
         IN SbisTable_remove(t1, donor)

SbisTable_copy(t, index) ==
    IF checkRowIndexThrows(t, index, FALSE) THEN TableOutcome(t, "throw", RangeError)
    ELSE LET clone == arrayMerge(Arr(<<>>), t.d[index + 1])
         IN TableOutcome([t EXCEPT !.d = Splice(t.d, 1 + index, 0, <<clone>>)], "success", clone)

HasUndefined(d) == \E i \in 1..Len(d) : d[i].t # "array"

\* _buildD and _removeD: every row spliced at the same place
buildD(d, at, value) == [i \in 1..Len(d) |-> Arr(Splice(d[i].a, at, 0, <<value>>))]
removeD(d, at) == [i \in 1..Len(d) |-> Arr(Splice(d[i].a, at, 1, <<>>))]

\* addField and removeFieldAt of SbisFormatMixin, at a place of the format
SbisTable_addField(t, format, at) ==
    IF HasUndefined(t.d) THEN TableOutcome([t EXCEPT !.s = Splice(t.s, at, 0, <<format>>)], "throw", "TypeError")
    ELSE TableOutcome([s |-> Splice(t.s, at, 0, <<format>>), d |-> buildD(t.d, at, 0)],
                      "success", "undefined")

SbisTable_removeFieldAt(t, at) ==
    IF HasUndefined(t.d) THEN TableOutcome([t EXCEPT !.s = Splice(t.s, at, 1, <<>>)], "throw", "TypeError")
    ELSE TableOutcome([s |-> Splice(t.s, at, 1, <<>>), d |-> removeD(t.d, at)],
                      "success", "undefined")

\* the arguments
Formats == {<<>>, <<"f1">>, <<"f1", "f2">>, <<"f2">>}
Cells == {1, 2}
TableRecords == UNION {[d : [1..Len(s) -> Cells], s : {s}] : s \in Formats}
RowIndexes == -1..3
AtIndexes == {NoAt} \cup RowIndexes

TableInit ==
    /\ ls = RawManager_new
    /\ pre = ls
    /\ op = NoOp
    /\ log = LogOff
    /\ steps = 0
    /\ lq = NoQuery
    /\ table \in {[s |-> s, d |-> <<>>] : s \in Formats}

Done(name, args, r) ==
    /\ table' = r.table
    /\ op' = [name |-> name, args |-> args, status |-> r.status, value |-> r.value,
              found |-> table]
    /\ steps' = steps + 1
    /\ UNCHANGED <<ls, pre, log, lq>>

\* copy has returned its clone and nothing was called since
IsCopied == op # NoOp /\ op.name = "copy" /\ op.status = "success"

TableAdd ==
    /\ Call
    /\ \E record \in TableRecords, at \in AtIndexes :
          Done("add", [record |-> record, at |-> at], SbisTable_add(table, record, at))

TableRemove ==
    /\ Call
    /\ \E at \in RowIndexes : Done("remove", [at |-> at], SbisTable_remove(table, at))

TableReplace ==
    /\ Call
    /\ \E record \in TableRecords, at \in RowIndexes :
          Done("replace", [record |-> record, at |-> at], SbisTable_replace(table, record, at))

TableMove ==
    /\ Call
    /\ \E source \in RowIndexes, target \in RowIndexes :
          Done("move", [source |-> source, target |-> target],
               SbisTable_move(table, source, target))

TableMerge ==
    /\ Call
    /\ \E acceptor \in RowIndexes, donor \in RowIndexes :
          Done("merge", [acceptor |-> acceptor, donor |-> donor],
               SbisTable_merge(table, acceptor, donor))

TableCopy ==
    /\ Call
    /\ \E index \in RowIndexes : Done("copy", [index |-> index], SbisTable_copy(table, index))

TableAddField ==
    /\ Call
    /\ \E at \in 0..Len(table.s) :
          Done("addField", [at |-> at], SbisTable_addField(table, "f3", at))

TableRemoveField ==
    /\ Call
    /\ \E at \in 0..(Len(table.s) - 1) :
          Done("removeFieldAt", [at |-> at], SbisTable_removeFieldAt(table, at))

\* the caller writes a cell of the clone copy returned: the clone is the
\* very array copy spliced into the rows after the row it was made from
TableMutateClone ==
    /\ IsCopied
    /\ Len(op.value.a) > 0
    /\ \E cell \in Cells :
          LET clone == Arr([op.value.a EXCEPT ![1] = cell])
          IN /\ clone # op.value
             /\ table' = [table EXCEPT !.d[op.args.index + 2] = clone]
             /\ op' = [op EXCEPT !.name = "mutate", !.value = clone]
    /\ UNCHANGED <<ls, pre, log, steps, lq>>

TableNext ==
    \/ TableMutateClone
    \/ TableAdd
    \/ TableRemove
    \/ TableReplace
    \/ TableMove
    \/ TableMerge
    \/ TableCopy
    \/ TableAddField
    \/ TableRemoveField
    \/ Callback

TableSpec == TableInit /\ [][TableNext]_vars

(***************************************************************************)
(* RawManager on its own: its methods called one after another on the      *)
(* storage a new RawManager has initialized.  value is what the method     *)
(* returned where a property reads it (existKeys, a failed move).          *)
(***************************************************************************)
RawInit ==
    /\ ls = RawManager_constructor(NoStorage)
    /\ pre = ls
    /\ op = NoOp
    /\ log = LogOff
    /\ steps = 0
    /\ lq = NoQuery
    /\ table = NoTable

RawSet ==
    /\ Call
    /\ \E key \in Keys, item \in SeedRows :
          Finish("RawManager.set", [key |-> key, item |-> item],
                 Outcome(RawManager_set(ls, key, item), "success", "undefined"))
    /\ UNCHANGED log

RawRemove ==
    /\ Call
    /\ \E keys \in KeyArgs :
          Finish("RawManager.remove", [keys |-> keys],
                 Outcome(RawManager_remove(ls, keys), "success", "undefined"))
    /\ UNCHANGED log

RawMove ==
    /\ Call
    /\ \E sourceItems \in SeqsUpTo(Keys, MaxList), to \in Targets, meta \in Metas :
          LET r == RawManager_move(ls, sourceItems, to, meta)
          IN Finish("RawManager.move", [sourceItems |-> sourceItems, to |-> to, meta |-> meta],
                    Outcome(r.st, "success", IF r.failed THEN ToNotFoundFail ELSE "undefined"))
    /\ UNCHANGED log

RawExistKeys ==
    /\ Call
    /\ \E keys \in KeyArgs :
          Finish("RawManager.existKeys", [keys |-> keys],
                 Outcome(ls, "success", existKeys(ls, keys)))
    /\ UNCHANGED log

RawNext ==
    \/ RawSet
    \/ RawRemove
    \/ RawMove
    \/ RawExistKeys
    \/ Callback

RawSpec == RawInit /\ [][RawNext]_vars

(***************************************************************************)
(* Properties.  A state with op # NoOp is the state a call has left: pre   *)
(* is the storage the call found, ls the storage it left.                  *)
(***************************************************************************)
IsOp(name) == op # NoOp /\ op.name = name
InSeq(x, s) == \E i \in 1..Len(s) : s[i] = x
Elems(s) == {s[i] : i \in 1..Len(s)}
Distinct(s) == \A i, j \in 1..Len(s) : i # j => s[i] # s[j]

\* C1: the persisted count equals the number of keys in the list of keys,
\* after any sequence of operations
C1_CountIsIndexLength == ls.k = Len(ls.i)

\* C2: no key appears more than once in the list of keys, after any
\* sequence of operations
C2_NoDuplicateKey == Distinct(ls.i)

\* C3: every key in the list of keys has a stored row, after any sequence
\* of operations
C3_IndexedKeyHasRow == \A key \in Elems(ls.i) : ls.d[key] # NoItem

\* C4: destroy of one or more keys is all-or-nothing: with a requested key
\* that is not in the list of keys it fails and changes nothing; with all
\* requested keys in the list it succeeds and none of them is left in the
\* list of keys or in the storage
C4_DestroyAllOrNothing ==
    IsOp("destroy") /\ op.args.keys.ks # <<>> =>
        IF \E key \in Elems(op.args.keys.ks) : ~InSeq(key, pre.i)
        THEN op.status = "fail" /\ ls = pre
        ELSE /\ op.status = "success"
             /\ \A key \in Elems(op.args.keys.ks) :
                    ~InSeq(key, ls.i) /\ ls.d[key] = NoItem

\* C5: in a store constructed empty that has only seen updates of records
\* with pairwise distinct identities, the query without where, orderBy,
\* offset, limit and select returns exactly the updated rows, in the order
\* of their insertion
C5_QueryReturnsInserted ==
    IsOp("query") /\ op.args.query = DefaultQuery /\ log.ok =>
        /\ op.status = "success"
        /\ op.value.items = log.rows
        /\ op.value.total = Len(log.rows)

C5_Witness ==
    /\ IsOp("query") /\ op.args.query = DefaultQuery /\ log.ok
    /\ Len(log.rows) = 2
    /\ op.value.items = log.rows

\* C6: merge(from, to) of two different keys of the list of keys succeeds,
\* leaves from in the list holding the merge of the two rows, removes to
\* and its row, and decreases the count by exactly 1
C6_MergeKeepsFrom ==
    IsOp("merge") /\ op.args.from # op.args.to
    /\ InSeq(op.args.from, pre.i) /\ InSeq(op.args.to, pre.i) =>
        /\ op.status = "success"
        /\ InSeq(op.args.from, ls.i)
        /\ ls.d[op.args.from] = objectMerge(pre.d[op.args.from], pre.d[op.args.to])
        /\ ~InSeq(op.args.to, ls.i)
        /\ ls.d[op.args.to] = NoItem
        /\ ls.k = pre.k - 1

\* C7: merge with from or to not in the list of keys, and copy of a key not
\* in the list of keys, fail and leave the list of keys, the count and all
\* rows unchanged
C7_AbsentKeyFails ==
    /\ IsOp("merge") /\ (~InSeq(op.args.from, pre.i) \/ ~InSeq(op.args.to, pre.i)) =>
           op.status = "fail" /\ ls = pre
    /\ IsOp("copy") /\ ~InSeq(op.args.key, pre.i) =>
           op.status = "fail" /\ ls = pre

\* C8: copy of a key of the list of keys appends exactly one key that was
\* not in the list, increases the count by exactly 1, stores under the new
\* key a copy of the original row and leaves every other row unchanged
C8_CopyAppendsClone ==
    IsOp("copy") /\ InSeq(op.args.key, pre.i) =>
        /\ op.status = "success"
        /\ \E myId \in Keys :
              /\ ~InSeq(myId, pre.i)
              /\ ls.i = Append(pre.i, myId)
              /\ ls.d[myId] = pre.d[op.args.key]
              /\ \A key \in Keys \ {myId} : ls.d[key] = pre.d[key]
        /\ ls.k = pre.k + 1

\* the case of C9: a positional move of distinct keys of the list, to a
\* target of the list that is not among them
C9_Case ==
    /\ IsOp("move") /\ op.args.meta.defined /\ op.args.meta.position # "on"
    /\ Distinct(op.args.from.ks)
    /\ \A id \in Elems(op.args.from.ks) : InSeq(id, pre.i)
    /\ op.args.to # NoKey /\ InSeq(op.args.to, pre.i)
    /\ ~InSeq(op.args.to, op.args.from.ks)

C9_IsBefore == op.args.meta.before \/ op.args.meta.position = "before"

\* C9: such a move leaves the sources as one block in the given order,
\* right after the target, or right before it when meta.before is set or
\* meta.position is 'before'; the other keys keep their relative order and
\* the keys, the count and the rows are the same
C9_MoveBlock ==
    C9_Case =>
        LET S == op.args.from.ks
            n == Len(S)
        IN /\ op.status = "success" /\ op.value = "undefined"
           /\ \E p \in 1..Len(ls.i) :
                 /\ ls.i[p] = op.args.to
                 /\ IF C9_IsBefore
                    THEN p - n >= 1 /\ SubSeq(ls.i, p - n, p - 1) = S
                    ELSE p + n <= Len(ls.i) /\ SubSeq(ls.i, p + 1, p + n) = S
           /\ SelectSeq(ls.i, LAMBDA key : ~InSeq(key, S))
                = SelectSeq(pre.i, LAMBDA key : ~InSeq(key, S))
           /\ Elems(ls.i) = Elems(pre.i)
           /\ Len(ls.i) = Len(pre.i)
           /\ ls.k = pre.k
           /\ ls.d = pre.d

C9_Witness ==
    /\ C9_Case
    /\ Len(op.args.from.ks) = 2
    /\ C9_IsBefore
    /\ ls.i # pre.i
    /\ Len(ls.i) = 3

\* C10: a positional move to a target that is not null and not in the list
\* of keys gives a failed result and leaves the storage unchanged
C10_AbsentTargetFails ==
    IsOp("move") /\ op.args.meta.defined /\ op.args.meta.position # "on"
    /\ op.args.to # NoKey /\ ~InSeq(op.args.to, pre.i) =>
        op.status = "fail" /\ ls = pre

\* C11: a move with a source key that is not in the list of keys gives a
\* failed result and changes neither the list of keys nor any row
C11_AbsentSourceFails ==
    IsOp("move") /\ op.args.meta.defined
    /\ (\E id \in Elems(op.args.from.ks) : ~InSeq(id, pre.i)) =>
        op.status = "fail" /\ ls = pre

\* the case of C12: a move with position 'on' and a parentProperty, of
\* keys of the list, to no target or to a target of the list that has a row
C12_Case ==
    /\ IsOp("move") /\ op.args.meta.defined /\ op.args.meta.position = "on"
    /\ op.args.meta.parentProperty # ""
    /\ \A id \in Elems(op.args.from.ks) : InSeq(id, pre.i)
    /\ op.args.to # NoKey => InSeq(op.args.to, pre.i) /\ pre.d[op.args.to] # NoItem

C12_ParentValue ==
    IF op.args.to = NoKey THEN Null
    ELSE pre.d[op.args.to][op.args.meta.parentProperty]

\* C12: such a move sets the parentProperty field of every source row to
\* the target row's value of that field, or to null without a target, and
\* leaves the list of keys, the count and all other rows unchanged
C12_HierarchyMoveRewrites ==
    C12_Case =>
        /\ \A id \in Elems(op.args.from.ks) :
               pre.d[id] # NoItem =>
                   ls.d[id] = [pre.d[id] EXCEPT ![op.args.meta.parentProperty] = C12_ParentValue]
        /\ \A key \in Keys \ Elems(op.args.from.ks) : ls.d[key] = pre.d[key]
        /\ ls.i = pre.i
        /\ ls.k = pre.k

\* C13: a move with position 'on' gives a failed result when
\* meta.parentProperty is missing or when the target is not null and not in
\* the list of keys, and no row is modified
C13_HierarchyMoveFails ==
    IsOp("move") /\ op.args.meta.defined /\ op.args.meta.position = "on"
    /\ (\/ op.args.meta.parentProperty = ""
        \/ op.args.to # NoKey /\ ~InSeq(op.args.to, pre.i)) =>
        op.status = "fail" /\ ls.d = pre.d

\* C14: every public operation, whatever its arguments, returns a result
\* that is a success or a failure; no exception reaches the caller
C14_NoException == op # NoOp => op.status \in {"success", "fail"}

\* the records of an update call whose identity can be read
C15_Readable == SelectSeq(op.args.data.records, LAMBDA r : r # BadRecord)

\* C15 as stated: update reports success and its list holds exactly the
\* keys of the persisted records, a record whose identity cannot be read
\* contributing no entry
C15_ListOfPersistedKeys ==
    IsOp("update") =>
        /\ op.status = "success"
        /\ Len(op.value) = Len(C15_Readable)
        /\ \A i \in 1..Len(op.value) : op.value[i] \in Keys

\* C15 amended: update reports success and its list has one entry per
\* record, in the order of the records: the key under which the record was
\* persisted or, for a record whose identity cannot be read, the failed
\* result of that record, which is not persisted; rows of other keys are
\* unchanged
C15_ListPerRecord ==
    IsOp("update") =>
        LET records == op.args.data.records
        IN /\ op.status = "success"
           /\ Len(op.value) = Len(records)
           /\ \A i \in 1..Len(records) :
                 IF records[i] = BadRecord
                 THEN op.value[i] = FailedDeferred
                 ELSE /\ op.value[i] \in Keys
                      /\ InSeq(op.value[i], ls.i)
                      /\ records[i][IdProperty] # Undef =>
                             op.value[i] = records[i][IdProperty].s
                      /\ (\A j \in (i + 1)..Len(records) : op.value[j] # op.value[i]) =>
                             ls.d[op.value[i]] = [records[i] EXCEPT ![IdProperty] = Str(op.value[i])]
           /\ \A key \in Keys : (~InSeq(key, op.value)) => ls.d[key] = pre.d[key]

C15_Witness ==
    /\ IsOp("update") /\ op.args.data.set
    /\ Len(op.args.data.records) = 2
    /\ op.args.data.records[2] = BadRecord
    /\ op.value = <<"a", FailedDeferred>>
    /\ ls.d["a"] # pre.d["a"]

\* an update of one record whose identity can be read
C16_Case == IsOp("update") /\ ~op.args.data.set /\ op.args.data.records[1] # BadRecord

\* C16: after update of a record the row under its key equals the record's
\* fields; a key that was not in the list is appended at its end and the
\* count grows by one, a key that was in the list leaves order and count
\* unchanged; a record without identity gets a reserved key that was not in
\* the list, assigned to its identity field
C16_UpdatePersists ==
    C16_Case =>
        LET record == op.args.data.records[1]
            k == op.value[1]
        IN /\ op.status = "success"
           /\ k \in Keys
           /\ record[IdProperty] # Undef => k = record[IdProperty].s
           /\ record[IdProperty] = Undef => ~InSeq(k, pre.i)
           /\ ls.d[k] = [record EXCEPT ![IdProperty] = Str(k)]
           /\ IF InSeq(k, pre.i)
              THEN ls.i = pre.i /\ ls.k = pre.k
              ELSE ls.i = Append(pre.i, k) /\ ls.k = pre.k + 1

C16_Witness ==
    /\ C16_Case
    /\ op.args.data.records[1][IdProperty] = Undef
    /\ op.value = <<"g">>
    /\ pre.i # <<>>
    /\ ls.i = Append(pre.i, "g")
    /\ ls.d["g"][IdProperty] = Str("g")

\* C17: read of a key in the list of keys succeeds with the stored row, read
\* of any other key fails, and read changes neither the list of keys, the
\* count nor any row
C17_ReadLiveOnly ==
    IsOp("read") =>
        /\ IF InSeq(op.args.key, pre.i)
           THEN op.status = "success" /\ op.value = pre.d[op.args.key]
           ELSE op.status = "fail"
        /\ ls = pre

\* C18: create succeeds and persists nothing, whether or not the seed carries
\* the identity field: the list of keys, the count and every row are as the
\* call found them, also when a key was reserved
C18_CreatePersistsNothing ==
    IsOp("create") => op.status = "success" /\ ls = pre

C18_Witness ==
    /\ IsOp("create")
    /\ op.args.meta # Null
    /\ op.args.meta[IdProperty] = Undef
    /\ op.value = op.args.meta
    /\ pre.i # <<>>
    /\ ~InSeq("g", ls.i)

\* the rows a query call found, in the order of the list of keys
C19_Rows == [n \in 1..Len(pre.i) |-> pre.d[pre.i[n]]]

\* a row passes where: every condition of the mapping holds of the whole row
C19_Passes(row) ==
    \A n \in 1..Len(op.args.query.where) :
        LET e == op.args.query.where[n]
        IN e.value # Undef => ApplyOp(tokinize(e.key).op, row[e.key.field], e.value)

\* offset and limit cut the rows that passed, select then projects them
C19_Expected(ordered) ==
    LET query == op.args.query
        passed == SelectSeq(ordered, C19_Passes)
        first == Min(query.offset, Len(passed)) + 1
        last == IF query.limit = NoLimit THEN Len(passed)
                ELSE Min(query.offset + query.limit, Len(passed))
        window == SubSeq(passed, first, last)
    IN IF query.select = <<>> THEN window
       ELSE [n \in 1..Len(window) |->
               [name \in Elems(query.select) |-> window[n][name]]]

\* C19: the items of a query are what order, where, offset, limit and select,
\* applied in this order to the rows in the order of the list of keys, give:
\* offset and limit count the rows that passed where, where tests the whole
\* row also for fields select drops; query changes neither the list of keys
\* nor any row
C19_QueryPipeline ==
    IsOp("query") =>
        /\ ls = pre
        /\ op.status = "success" =>
              \E ordered \in LocalQuery_order(op.args.query, C19_Rows) :
                  op.value.items = C19_Expected(ordered)

C19_Witness ==
    /\ IsOp("query") /\ op.status = "success"
    /\ op.args.query.select = <<"id">>
    /\ Len(pre.i) >= 3
    /\ ~C19_Passes(C19_Rows[1])
    /\ Cardinality({n \in 1..Len(pre.i) : C19_Passes(C19_Rows[n])}) >= 2
    /\ Len(op.value.items) = 1

\* C20: the total of the dataset a query resolves to equals the number of
\* items it returns
C20_TotalIsItemCount ==
    IsOp("query") /\ op.status = "success" => op.value.total = Len(op.value.items)

C20_Witness ==
    /\ IsOp("query") /\ op.status = "success"
    /\ op.args.query.limit = 1 /\ op.args.query.offset = 1
    /\ Cardinality({n \in 1..Len(pre.i) : C19_Passes(C19_Rows[n])}) >= 3
    /\ op.value.total = 1

(***************************************************************************)
(* Properties of the stages of LocalQuery, over the states of QuerySpec.   *)
(***************************************************************************)
IsStage(stage) == lq.stage = stage /\ lq.status = "success"
Nullish(a) == a.t \in {"undefined", "null"}

\* C21: in the order stage a sort field that is null or undefined compares
\* strictly less than every non-null one in both argument orders, equal
\* values compare as 0, and ascending order puts the rows whose field is
\* null or missing before the rows whose field is not
C21_NullSortsLowest ==
    IsStage("order") /\ lq.query.orderBy = <<Order("v", FALSE)>> =>
        /\ \A i, j \in 1..Len(lq.items) :
              LET a == lq.items[i].v
                  b == lq.items[j].v
              IN /\ Nullish(a) /\ ~Nullish(b) => compare(a, b) = -1 /\ compare(b, a) = 1
                 /\ StrictEq(a, b) => compare(a, b) = 0
        /\ \A i, j \in 1..Len(lq.data) :
              i < j => ~(~Nullish(lq.data[i].v) /\ Nullish(lq.data[j].v))

\* the value of compare on the n-th entry of the orderBy of the stage
C22_Entry(a, b, n) ==
    compare(a[lq.query.orderBy[n].selector], b[lq.query.orderBy[n].selector])

\* row a goes before row b: on the first entry on which they differ a is
\* the lesser, or the greater when the entry is descending
C22_Before(a, b) ==
    \E n \in 1..Len(lq.query.orderBy) :
        /\ \A m \in 1..(n - 1) : C22_Entry(a, b, m) = 0
        /\ IF lq.query.orderBy[n].order THEN C22_Entry(a, b, n) > 0
           ELSE C22_Entry(a, b, n) < 0

C22_Differ(a, b) == \E n \in 1..Len(lq.query.orderBy) : C22_Entry(a, b, n) # 0

\* C22: the order stage is a stable multi-key sort: the rows it returns are
\* the rows it was handed, any two of them ordered by the first orderBy
\* entry on which they differ (reversed for a descending entry), rows equal
\* on every entry in the order they came in; an empty orderBy changes nothing
C22_StableMultiKeySort ==
    IsStage("order") =>
        LET n == Len(lq.items)
        IN /\ lq.query.orderBy = <<>> => lq.data = lq.items
           /\ \E p \in {f \in [1..n -> 1..n] : \A i, j \in 1..n : i # j => f[i] # f[j]} :
                 /\ lq.data = [k \in 1..n |-> lq.items[p[k]]]
                 /\ \A k, l \in 1..n :
                       k < l => IF C22_Differ(lq.data[k], lq.data[l])
                                THEN C22_Before(lq.data[k], lq.data[l])
                                ELSE p[k] < p[l]

\* the n-th entry of the mapping holds for a row: the comparison its key
\* names, between the field of the row and the value of the entry
C23_Holds(row, e) ==
    LET token == tokinize(e.key)
        field == row[token.field]
    IN IF field.t = "array" THEN Len(field.a) > 0 /\ ApplyOp(token.op, field, e.value)
       ELSE ApplyOp(token.op, field, e.value)

C23_Keeps(row) ==
    \A n \in 1..Len(lq.query.where) :
        lq.query.where[n].value # Undef => C23_Holds(row, lq.query.where[n])

\* C23: where with a mapping keeps a row if and only if every entry whose
\* value is not undefined holds for the row, whatever the order of the
\* entries; an entry whose value is undefined imposes no condition
C23_WhereIsConjunction ==
    IsStage("where") => lq.data = SelectSeq(lq.items, C23_Keeps)

\* the last element of an array that has one
C24_Last(field) == field.a[Len(field.a)]

\* C24: when the field of a condition is an array in a row, the outcome of
\* the condition for the row is the comparison applied to the last element
\* of the array and the value of the condition (where of one condition on
\* an array that is not empty: the row is kept exactly when that holds)
C24_ArrayFieldLastElement ==
    IsStage("where") /\ Len(lq.query.where) = 1 /\ lq.query.where[1].value # Undef =>
        LET e == lq.query.where[1]
            token == tokinize(e.key)
        IN \A i \in 1..Len(lq.items) :
              lq.items[i][token.field].t = "array" /\ Len(lq.items[i][token.field].a) > 0 =>
                  (InSeq(lq.items[i], lq.data)
                      <=> ApplyOp(token.op, C24_Last(lq.items[i][token.field]), e.value))

\* a key of the mapping of a query that has no word character
C25_Untokenizable(query) ==
    \E n \in 1..Len(query.where) :
        query.where[n].value # Undef /\ query.where[n].key.field = ""

\* C25: when a key of the where mapping fails to tokenize, where yields the
\* empty result and the query succeeds with zero items
C25_UntokenizableKeyEmpty ==
    IsOp("query") /\ C25_Untokenizable(op.args.query) =>
        op.status = "success" /\ op.value.items = <<>> /\ op.value.total = 0

\* the comparison a key with the symbols sym states of the numbers n and k
C26_Compares(sym, n, k) ==
    CASE sym = "<" -> n < k
      [] sym = "<=" -> n <= k
      [] sym = ">" -> n > k
      [] sym = ">=" -> n >= k
      [] sym \in {"!=", "<>"} -> n # k
      [] sym = "" -> n = k

\* a where of one condition on the field v
C26_Case ==
    /\ IsStage("where") /\ Len(lq.query.where) = 1
    /\ lq.query.where[1].key.field = "v"
    /\ lq.query.where[1].value.t \in {"number", "array"}

\* the rows with a number in v that the condition asks for
C26_Asked(row) ==
    LET e == lq.query.where[1]
    IN /\ row.v.t = "number"
       /\ IF e.value.t = "array" THEN \E n \in 1..Len(e.value.a) : e.value.a[n] = row.v
          ELSE C26_Compares(e.key.sym, row.v.n, e.value.n)

\* C26: a key 'f<' asks for less-than, 'f<=' less-or-equal, 'f>' greater-than,
\* 'f>=' greater-or-equal, 'f!=' and 'f<>' not-equal and 'f' alone equal on the
\* field f, equal against an array meaning membership: of the rows that hold
\* a number in the field, where keeps exactly those the comparison asks for
C26_TokenizerMapping ==
    C26_Case =>
        SelectSeq(lq.data, LAMBDA row : row.v.t = "number") = SelectSeq(lq.items, C26_Asked)

C26_Witness ==
    /\ C26_Case
    /\ lq.query.where = <<Cond("v", ">=", Num(2))>>
    /\ Len(lq.items) = 3
    /\ \E i \in 1..3 : lq.items[i].v = Num(1)
    /\ Len(lq.data) = 2
    /\ \A i \in 1..2 : lq.data[i].v = Num(2)

\* the number of rows offset and limit leave of n rows
C27_Count(n, offset, limit) ==
    IF limit = NoLimit THEN Max(0, n - offset) ELSE Min(limit, Max(0, n - offset))

\* C27: offset N drops exactly the first N rows (none for 0) and limit N
\* keeps at most the first N of the rows that remain (all of them only when
\* the limit is undefined, none for 0): of n rows min(limit, max(0, n - offset))
\* are left, the rows from position offset on
C27_OffsetLimit ==
    /\ IsStage("offset") =>
          /\ Len(lq.data) = Max(0, Len(lq.items) - lq.query.offset)
          /\ \A k \in 1..Len(lq.data) : lq.data[k] = lq.items[lq.query.offset + k]
    /\ IsStage("limit") =>
          /\ Len(lq.data) = C27_Count(Len(lq.items), lq.query.offset, lq.query.limit)
          /\ \A k \in 1..Len(lq.data) : lq.data[k] = lq.items[lq.query.offset + k]

C27_Witness ==
    /\ IsStage("limit")
    /\ Len(lq.items) = 5
    /\ lq.query.offset = 2 /\ lq.query.limit = 2
    /\ lq.data = <<lq.items[3], lq.items[4]>>
    /\ lq.items[3] # lq.items[2] /\ lq.items[4] # lq.items[5]

C29_RowsMatchSchema ==
    \A i \in 1..Len(table.d) :
        table.d[i].t = "array" /\ Len(table.d[i].a) = Len(table.s)

\* C30: on a table that holds rows, and so a format with fields adopted
\* from the first row added, add(row) and replace(row, i) with a row whose
\* format differs in the number of fields from the format of the table fail
\* with the format error and change neither the rows nor the format
C30_SchemaEnforced ==
    /\ IsOp("add") \/ IsOp("replace")
    /\ Len(op.found.d) > 0 /\ Len(op.found.s) > 0
    /\ IsOp("add") => op.args.at = NoAt
    /\ IsOp("replace") => op.args.at \in 0..(Len(op.found.d) - 1)
    /\ Len(op.args.record.s) # Len(op.found.s)
    => op.status = "throw" /\ op.value = FormatError /\ table = op.found

\* C31: copy(i) for a valid index i makes the table one row longer, leaves
\* row i as it was and returns a clone equal to row i; writing to the clone
\* afterwards does not alter row i.
C31_CopyClones ==
    /\ IsOp("copy") /\ op.args.index \in 0..(Len(op.found.d) - 1)
       => /\ op.status = "success"
          /\ Len(table.d) = Len(op.found.d) + 1
          /\ table.d[op.args.index + 1] = op.found.d[op.args.index + 1]
          /\ op.value = op.found.d[op.args.index + 1]
    /\ IsOp("mutate") => table.d[op.args.index + 1] = op.found.d[op.args.index + 1]

\* C32: remove, replace, copy, move and merge raise RangeError whenever a row
\* index they are given (for move the source) is outside 0..length-1, and
\* then leave the rows as they were.
C32_Outside(index) == index \notin 0..(Len(op.found.d) - 1)

C32_BadIndex ==
    \/ (IsOp("remove") \/ IsOp("replace")) /\ C32_Outside(op.args.at)
    \/ IsOp("copy") /\ C32_Outside(op.args.index)
    \/ IsOp("move") /\ C32_Outside(op.args.source)
    \/ IsOp("merge") /\ (C32_Outside(op.args.acceptor) \/ C32_Outside(op.args.donor))

C32_RangeChecked ==
    C32_BadIndex => op.status = "throw" /\ op.value = RangeError /\ table.d = op.found.d

\* C33: add(row, atIndex) of a row the table's schema admits appends the row
\* when atIndex is undefined and places it at atIndex when 0 <= atIndex <=
\* length, the later rows moving up by one; for any other atIndex it raises
\* RangeError and leaves rows and schema as they were, an empty table
\* included.
C33_Admitted == Len(op.found.d) = 0 \/ op.args.record.s = op.found.s

C33_AddPlaces ==
    IsOp("add") /\ C33_Admitted
    => LET row == Arr(op.args.record.d)
           at == op.args.at
       IN IF at = NoAt
          THEN op.status = "success" /\ table.d = Append(op.found.d, row)
          ELSE IF at \in 0..Len(op.found.d)
          THEN /\ op.status = "success"
               /\ table.d = SubSeq(op.found.d, 1, at) \o <<row>>
                               \o SubSeq(op.found.d, at + 1, Len(op.found.d))
          ELSE op.status = "throw" /\ op.value = RangeError /\ table = op.found

\* C34: merge(acceptor, donor) with both indexes valid leaves the acceptor row
\* holding the donor's values position by position, removes the donor row,
\* makes the table one row shorter and leaves every other row unchanged and
\* in the same relative order.
C34_Without(d, skip) ==
    LET F[n \in 0..Len(d)] ==
            IF n = 0 THEN <<>> ELSE IF n \in skip THEN F[n - 1] ELSE Append(F[n - 1], d[n])
    IN F[Len(d)]

C34_HoldsValuesOf(row, donor) ==
    /\ row.t = "array"
    /\ donor.t = "array" => /\ Len(row.a) >= Len(donor.a)
                            /\ \A n \in 1..Len(donor.a) : row.a[n] = donor.a[n]

C34_MergeKeepsDonorValues ==
    IsOp("merge") /\ {op.args.acceptor, op.args.donor} \subseteq 0..(Len(op.found.d) - 1)
    => /\ op.status = "success"
       /\ Len(table.d) = Len(op.found.d) - 1
       /\ \E p \in 1..Len(table.d) :
             /\ C34_HoldsValuesOf(table.d[p], op.found.d[op.args.donor + 1])
             /\ C34_Without(table.d, {p})
                  = C34_Without(op.found.d, {op.args.acceptor + 1, op.args.donor + 1})

(***************************************************************************)
(* Properties of RawManager, over the states of RawSpec, and of the store  *)
(* that is built on it.                                                    *)
(***************************************************************************)
\* C35: RawManager.set for a key that is in the list of keys writes the row
\* and changes neither the count nor the list; a key that is not in the list
\* is appended at its end and the count grows by one.
C35_SetIdempotentOnIndex ==
    IsOp("RawManager.set")
    => /\ ls.d[op.args.key] = op.args.item
       /\ IF InSeq(op.args.key, pre.i)
          THEN ls.i = pre.i /\ ls.k = pre.k
          ELSE ls.i = Append(pre.i, op.args.key) /\ ls.k = pre.k + 1

\* set on a key the list holds, and not as its last, with another row
C35_Witness ==
    /\ IsOp("RawManager.set")
    /\ Len(pre.i) >= 2 /\ pre.i[1] = op.args.key
    /\ pre.d[op.args.key] # op.args.item

\* C36: RawManager.remove of a key, or of a list of keys, none of which is in
\* the list of keys changes nothing: the count, the list of keys and the
\* rows stored under the other keys are as before.
C36_RemoveAbsentNoOp ==
    IsOp("RawManager.remove") /\ (\A key \in Elems(op.args.keys.ks) : ~InSeq(key, pre.i))
    => /\ ls.k = pre.k
       /\ ls.i = pre.i
       /\ \A key \in Keys \ Elems(op.args.keys.ks) : ls.d[key] = pre.d[key]

\* C37: existKeys answers true exactly when the list of keys is not empty and
\* holds every key it is asked about; on an empty list of keys it answers
\* false whatever it is asked, an empty array included, so destroy on an
\* empty store always fails.  destroy succeeds exactly when existKeys
\* answers true.
C37_AllExist(keys) == Len(pre.i) > 0 /\ \A key \in Elems(keys.ks) : InSeq(key, pre.i)

C37_ExistKeys ==
    /\ IsOp("destroy") => (op.status = "success") = C37_AllExist(op.args.keys)
    /\ IsOp("destroy") /\ pre.i = <<>> => op.status = "fail" /\ ls = pre
    /\ IsOp("RawManager.existKeys") => op.value = C37_AllExist(op.args.keys)

\* destroy of no key at all on an empty store
C37_Witness ==
    /\ IsOp("destroy") /\ pre.i = <<>> /\ op.args.keys = Many(<<>>)
    /\ op.status = "fail"

\* C38: in every reachable state the row stored under a key of the list of
\* keys carries that key as the value of its identity field.
C38_IdentityIsKey ==
    \A key \in Elems(ls.i) :
       ls.d[key] # NoItem => ls.d[key][IdProperty] = Str(key)

\* C39: a construction over a storage an earlier source has written loads
\* the list of keys and the count it finds and only appends to them; when
\* the rows of options.data all carry an identity and the storage holds
\* their keys, as it does after a construction with the same rows, the
\* order of the keys and the count stay exactly what they were.
C39_Loaded == IsOp("constructor") /\ op.status = "success" /\ "i" \in DOMAIN pre

C39_Ids(data) == [n \in 1..Len(data) |-> data[n][IdProperty]]

C39_AllCarryIdentity(data) == \A n \in 1..Len(data) : data[n][IdProperty] # Undef

C39_SecondConstruction ==
    /\ C39_Loaded =>
          /\ Len(ls.i) >= Len(pre.i) /\ SubSeq(ls.i, 1, Len(pre.i)) = pre.i
          /\ ls.k = pre.k + (Len(ls.i) - Len(pre.i))
    /\ IsOp("constructor") /\ op.status = "success"
          /\ C39_AllCarryIdentity(op.args.options.data) =>
          \A id \in Elems(C39_Ids(op.args.options.data)) : InSeq(id.s, ls.i)
    /\ C39_Loaded /\ C39_AllCarryIdentity(op.args.options.data)
          /\ (\A id \in Elems(C39_Ids(op.args.options.data)) : InSeq(id.s, pre.i)) =>
          ls.i = pre.i /\ ls.k = pre.k

\* a second construction with two rows on the storage the first left
C39_Witness ==
    /\ C39_Loaded
    /\ steps = 2
    /\ op.args.options.data = <<Row(Str("b"), Num(2)), Row(Str("a"), Num(1))>>
    /\ pre.i = <<"b", "a">> /\ pre.k = 2
    /\ pre.d["a"] = Row(Str("a"), Num(1))
    /\ ls = pre

\* C40: a positional move of keys of the list, each given once, with the
\* target null does not fail: it leaves the sources at the front of the list
\* of keys as one block in the order given, the other keys in their relative
\* order, and the keys and the count the same.
C40_Case ==
    /\ IsOp("move") /\ op.args.meta.defined /\ op.args.meta.position # "on"
    /\ Distinct(op.args.from.ks)
    /\ \A id \in Elems(op.args.from.ks) : InSeq(id, pre.i)
    /\ op.args.to = NoKey

C40_MoveToFront ==
    C40_Case =>
        LET S == op.args.from.ks
        IN /\ op.status = "success" /\ op.value = "undefined"
           /\ SubSeq(ls.i, 1, Len(S)) = S
           /\ SelectSeq(ls.i, LAMBDA key : ~InSeq(key, S))
                = SelectSeq(pre.i, LAMBDA key : ~InSeq(key, S))
           /\ Elems(ls.i) = Elems(pre.i)
           /\ Len(ls.i) = Len(pre.i)
           /\ ls.k = pre.k

====
